---------------------------- MODULE Spec2Model ----------------------------
(***************************************************************************)
(* A model of the resume parser (src/resumeParser.py).                     *)
(*                                                                         *)
(* A text is a sequence of units.  A unit is a string standing for one     *)
(* maximal run of word characters (a word, a number), or for one           *)
(* punctuation character, or for one white-space character (" ", "\n").    *)
(* The digits of a telephone number are one unit each, an e-mail address   *)
(* and a URL one unit as a whole.  Every regular expression of the source  *)
(* is modelled by what it matches on such a sequence.                      *)
(***************************************************************************)
EXTENDS Integers, Sequences, FiniteSets, TLC

VARIABLES
    pc,         \* position of the running function
    text,       \* the input text of the function under study
    norm,       \* parse_resume: the text after the normalisation of line 446
    lines,      \* parse_experience: the stripped non-empty lines
    idx,        \* parse_experience: the index of the line the loop is at
    cur,        \* parse_experience: the open entry, <<>> (None) or <<entry>>
    entries,    \* parse_experience: the closed entries
    filtered,   \* parse_experience: the returned list
    now_year,   \* estimate_years_experience: datetime.now().year
    years_exp,  \* estimate_years_experience: the returned number
    phones,     \* extract_phones: the returned list
    sections,   \* split_sections: the returned dict, as (key, value) pairs
    file,       \* parse_resume: the path's suffix and what the file system holds
    content,    \* the text of the file at the path
    runs,       \* what each call of parse_resume came to, in call order
    profile,    \* extract_urls: the returned dict
    degrees     \* parse_education: the returned list

expVars == <<lines, idx, cur, entries, filtered>>
fileVars == <<file, content, runs, profile, degrees>>
yearVars == <<now_year, years_exp, phones, sections, file, content, runs, profile,
              degrees>>
vars == <<pc, text, norm, lines, idx, cur, entries, filtered, now_year, years_exp,
          phones, sections, file, content, runs, profile, degrees>>

----------------------------------------------------------------------------
(* Bounds of the model *)

MaxRawLen == 5
MaxExpLines == 3
MaxBlocks == 2
MaxYearWords == 4
MaxPhonePieces == 2
MaxSegLines == 3
MaxResumeLines == 2
MaxRuns == 2
MaxUrlPieces == 3
MaxEduLines == 3

----------------------------------------------------------------------------
(* Sequences *)

SeqsUpTo(S, n) == UNION {[1..k -> S] : k \in 0..n}

Last(s) == s[Len(s)]

Front(s) == SubSeq(s, 1, Len(s) - 1)

RECURSIVE Flatten(_)
Flatten(ss) == IF ss = <<>> THEN <<>> ELSE Head(ss) \o Flatten(Tail(ss))

\* sep.join(parts)
RECURSIVE Join(_, _)
Join(parts, sep) ==
    IF parts = <<>> THEN <<>>
    ELSE IF Len(parts) = 1 THEN parts[1]
    ELSE parts[1] \o sep \o Join(Tail(parts), sep)

----------------------------------------------------------------------------
(* Python's str methods on unit sequences *)

NL == "\n"
SP == " "
IsSpace(u) == u \in {SP, NL}

\* str.splitlines(): the lines between the newlines; a trailing newline
\* opens no further line.
RECURSIVE SplitFrom(_, _)
SplitFrom(t, acc) ==
    IF t = <<>> THEN (IF acc = <<>> THEN <<>> ELSE <<acc>>)
    ELSE IF Head(t) = NL THEN <<acc>> \o SplitFrom(Tail(t), <<>>)
    ELSE SplitFrom(Tail(t), Append(acc, Head(t)))

splitlines(t) == SplitFrom(t, <<>>)

RECURSIVE LStrip(_)
LStrip(t) == IF t # <<>> /\ IsSpace(Head(t)) THEN LStrip(Tail(t)) ELSE t

RECURSIVE RStrip(_)
RStrip(t) == IF t # <<>> /\ IsSpace(Last(t)) THEN RStrip(Front(t)) ELSE t

strip(t) == RStrip(LStrip(t))

----------------------------------------------------------------------------
(* Character classes of the units *)

\* str.lower() and str.upper() on the units that occur in a cased form or
\* that the source compares in one case; another unit stands for itself.
LowerUnit(u) ==
    CASE u \in {"Experience", "EXPERIENCE"} -> "experience"
      [] u \in {"Skills", "SKILLS"} -> "skills"
      [] u \in {"Projects", "PROJECTS"} -> "projects"
      [] u \in {"Personal", "PERSONAL"} -> "personal"
      [] u \in {"Education", "EDUCATION"} -> "education"
      [] u \in {"Summary", "SUMMARY"} -> "summary"
      [] u = "Work" -> "work"
      [] u = "Python" -> "python"
      [] u = "Acme" -> "acme"
      [] u = "John" -> "john"
      [] u = "Doe" -> "doe"
      [] u = "BS" -> "bs"
      [] u = "MS" -> "ms"
      [] u = "MBA" -> "mba"
      [] u = "PhD" -> "phd"
      [] u = "Bachelor" -> "bachelor"
      [] u = "Master" -> "master"
      [] u = "Systems" -> "systems"
      [] u = "Science" -> "science"
      [] u = "Computer" -> "computer"
      [] u = "Engineering" -> "engineering"
      [] u = "Tech" -> "tech"
      [] u = "B" -> "b"
      [] u = "M" -> "m"
      [] u = "E" -> "e"
      [] u = "Jan" -> "jan"
      [] u = "Mar" -> "mar"
      [] u = "Apr" -> "apr"
      [] u = "Present" -> "present"
      [] u = "Current" -> "current"
      [] u = "To" -> "to"
      [] OTHER -> u

UpperUnit(u) ==
    CASE u \in {"Experience", "experience"} -> "EXPERIENCE"
      [] u \in {"Projects", "projects"} -> "PROJECTS"
      [] u \in {"Personal", "personal"} -> "PERSONAL"
      [] u \in {"Skills", "skills"} -> "SKILLS"
      [] OTHER -> u

lower(t) == [i \in 1..Len(t) |-> LowerUnit(t[i])]
upper(t) == [i \in 1..Len(t) |-> UpperUnit(t[i])]

\* The punctuation units; every other unit but " " and "\n" is a run of
\* word characters.
EmDash == "<em-dash>"
EnDash == "<en-dash>"
Hyphen == "-"
Punct == {EmDash, EnDash, Hyphen, "|", ",", ".", "/", ":", "(", ")", "+", "\\"}

\* An e-mail address and a URL are one unit each: EMAIL_RE and URL_RE
\* match them whole, and what the other patterns could match of them
\* (letters, dots, slashes) holds no date, digit run or separator.
Emails == {"john@acme.com"}
LinkedinUrls == {"https://linkedin.com/in/a", "https://linkedin.com/in/b"}
GithubUrls == {"https://github.com/a"}
PortfolioUrls == {"https://medium.com/a", "https://gitlab.com/a"}
OtherUrls == {"https://example.com"}
Urls == LinkedinUrls \cup GithubUrls \cup PortfolioUrls \cup OtherUrls
Atoms == Emails \cup Urls

IsWord(u) == ~IsSpace(u) /\ u \notin Punct /\ u \notin Atoms

\* Runs of four digits, and those of them that \b(19|20)\d{2}\b matches.
FourDigits == {"1899", "2015", "2018", "2019", "2020", "2021", "2030", "2040"}
Years1920 == FourDigits \ {"1899"}

\* Where the letters "to" stand in a word (RANGE_RE takes them as a range
\* separator, in any case): the whole word, strictly inside it, or nowhere.
ToPos(u) ==
    CASE LowerUnit(u) = "to" -> "whole"
      [] u \in {"Boston", "Director"} -> "inner"
      [] OTHER -> "none"

\* [\w\s\.\-\/], the class of the two groups of RANGE_RE.
InRangeClass(u) == IsWord(u) \/ IsSpace(u) \/ u \in {".", Hyphen, "/"}

----------------------------------------------------------------------------
(* parse_experience, lines 364-417 *)

None == <<"<None>">>

\* Python's truth value of an optional string.
Truthy(v) == v # None /\ v # <<>>

MonthWords == {"jan", "feb", "mar", "apr", "may", "jun", "jul", "aug", "sep",
               "oct", "nov", "dec"}

\* DATE_WORDS.search(line), line 365
DATE_WORDS_search(line) ==
    \E i \in 1..Len(line) :
        \/ LowerUnit(line[i]) \in MonthWords \cup {"present", "current"}
        \/ line[i] \in FourDigits

\* re.search(r"\b(19|20)\d{2}\b", line), line 378
YearSearch(line) == \E i \in 1..Len(line) : line[i] \in Years1920

\* RANGE_RE.search(line), line 364: a separator ("to", hyphen, en dash, em
\* dash) with a character of the class right before and right after it.
RANGE_RE_search(line) ==
    \E i \in 1..Len(line) :
        \/ ToPos(line[i]) = "inner"
        \/ /\ ToPos(line[i]) = "whole" \/ line[i] \in {Hyphen, EnDash, EmDash}
           /\ i > 1 /\ InRangeClass(line[i - 1])
           /\ i < Len(line) /\ InRangeClass(line[i + 1])

\* The header labels of line 375 (re.fullmatch on line.lower()).
HeaderLabels ==
    { <<"experience">>, <<"work", SP, "experience">>,
      <<"professional", SP, "experience">>, <<"personal">>,
      <<"internships">>, <<"projects">>, <<"skills">> }

IsHeaderLabel(line) == lower(line) \in HeaderLabels

\* The date-line test of line 378.
IsDateLine(line) ==
    DATE_WORDS_search(line) /\ (RANGE_RE_search(line) \/ YearSearch(line))

SpacedAt(line, i, u) ==
    /\ line[i] = u
    /\ i > 1 /\ line[i - 1] = SP
    /\ i < Len(line) /\ line[i + 1] = SP

\* re.search(r"\u2014|-|\u2014|, at | at | \| ", line), line 385
SeparatorSearch(line) ==
    \E i \in 1..Len(line) :
        \/ line[i] \in {EmDash, Hyphen}
        \/ SpacedAt(line, i, "at")
        \/ SpacedAt(line, i, "|")

\* len(line.split())
WordCount(line) ==
    Cardinality({i \in 1..Len(line) :
                    ~IsSpace(line[i]) /\ (i = 1 \/ IsSpace(line[i - 1]))})

MaxTitleWords == 12

IsSeparatorLine(line) == SeparatorSearch(line) /\ WordCount(line) <= MaxTitleWords

\* The length of the match of r"\u2014|-|\u2013|\||, at | at " at position i, or 0.
SplitMatchLen(line, i) ==
    IF line[i] \in {EmDash, Hyphen, EnDash, "|"} THEN 1
    ELSE IF /\ line[i] = "," /\ i + 3 <= Len(line)
            /\ line[i + 1] = SP /\ line[i + 2] = "at" /\ line[i + 3] = SP THEN 4
    ELSE IF /\ line[i] = SP /\ i + 2 <= Len(line)
            /\ line[i + 1] = "at" /\ line[i + 2] = SP THEN 3
    ELSE 0

\* re.split(r"\u2014|-|\u2013|\||, at | at ", line), line 386
RECURSIVE SplitParts(_, _, _)
SplitParts(line, i, acc) ==
    IF i > Len(line) THEN <<acc>>
    ELSE IF SplitMatchLen(line, i) > 0
         THEN <<acc>> \o SplitParts(line, i + SplitMatchLen(line, i), <<>>)
         ELSE SplitParts(line, i + 1, Append(acc, line[i]))

re_split(line) == SplitParts(line, 1, <<>>)

\* title and company of lines 388-389
TitleOf(line) == strip(re_split(line)[1])
CompanyOf(line) ==
    IF Len(re_split(line)) > 1 THEN strip(re_split(line)[2]) ELSE None

Entry(d, t, c, x) == [dates |-> d, title |-> t, company |-> c, description |-> x]

\* The filter of lines 408-416.
DroppedLabels == {<<"EXPERIENCE">>, <<"PERSONAL">>, <<"PROJECTS">>}

KeepEntry(e) ==
    /\ Truthy(e.title) \/ Truthy(e.company) \/ Truthy(e.description) \/ Truthy(e.dates)
    /\ ~(Truthy(e.title) /\ upper(strip(e.title)) \in DroppedLabels)

\* The lines of line 370.
StrippedLines(t) ==
    SelectSeq([i \in 1..Len(splitlines(t)) |-> strip(splitlines(t)[i])],
              LAMBDA l : l # <<>>)

ExpIdle ==
    /\ lines = <<>>
    /\ idx = 0
    /\ cur = <<>>
    /\ entries = <<>>
    /\ filtered = <<>>

FileIdle ==
    /\ file = [suffix |-> ".txt", readable |-> TRUE, oletools |-> FALSE]
    /\ content = <<>>
    /\ runs = <<>>
    /\ profile = <<>>
    /\ degrees = <<>>

YearsIdle ==
    /\ now_year = 0
    /\ years_exp = 0
    /\ phones = <<>>
    /\ sections = <<>>
    /\ FileIdle

ExpBegin ==
    /\ pc = "exp_start"
    /\ IF text = <<>>
       THEN /\ pc' = "exp_done"
            /\ UNCHANGED expVars
       ELSE /\ lines' = StrippedLines(text)
            /\ idx' = 1
            /\ pc' = "exp_loop"
            /\ UNCHANGED <<cur, entries, filtered>>
    /\ UNCHANGED <<text, norm, yearVars>>

InLoop == pc = "exp_loop" /\ idx <= Len(lines)

\* Not the code: a header label that closes the open entry.
ExpSkipHeaderClosing ==
    /\ InLoop
    /\ IsHeaderLabel(lines[idx])
    /\ entries' = entries \o cur
    /\ cur' = <<>>
    /\ idx' = idx + 1
    /\ UNCHANGED <<pc, text, norm, lines, filtered, yearVars>>

\* line 375: a header label is skipped
ExpSkipHeader ==
    /\ InLoop
    /\ IsHeaderLabel(lines[idx])
    /\ idx' = idx + 1
    /\ UNCHANGED <<pc, text, norm, lines, cur, entries, filtered, yearVars>>

\* lines 378-383: a date line closes the open entry and opens a new one
ExpDateLine ==
    /\ InLoop
    /\ ~IsHeaderLabel(lines[idx])
    /\ IsDateLine(lines[idx])
    /\ entries' = entries \o cur
    /\ cur' = <<Entry(strip(lines[idx]), None, None, <<>>)>>
    /\ idx' = idx + 1
    /\ UNCHANGED <<pc, text, norm, lines, filtered, yearVars>>

\* A mutant that tries the separator rule before the date-line rule.
ExpSeparatorFillFirst ==
    /\ InLoop
    /\ ~IsHeaderLabel(lines[idx])
    /\ IsSeparatorLine(lines[idx])
    /\ cur # <<>> /\ ~Truthy(cur[1].title)
    /\ cur' = <<[cur[1] EXCEPT !.title = TitleOf(lines[idx]),
                               !.company = CompanyOf(lines[idx])]>>
    /\ idx' = idx + 1
    /\ UNCHANGED <<pc, text, norm, lines, entries, filtered, yearVars>>

\* lines 385-393: a separator line fills the open entry that has no title
ExpSeparatorFill ==
    /\ InLoop
    /\ ~IsHeaderLabel(lines[idx])
    /\ ~IsDateLine(lines[idx])
    /\ IsSeparatorLine(lines[idx])
    /\ cur # <<>> /\ ~Truthy(cur[1].title)
    /\ cur' = <<[cur[1] EXCEPT !.title = TitleOf(lines[idx]),
                               !.company = CompanyOf(lines[idx])]>>
    /\ idx' = idx + 1
    /\ UNCHANGED <<pc, text, norm, lines, entries, filtered, yearVars>>

\* A mutant that opens the new entry without closing the open one.
ExpSeparatorNewUnclosed ==
    /\ InLoop
    /\ ~IsHeaderLabel(lines[idx])
    /\ ~IsDateLine(lines[idx])
    /\ IsSeparatorLine(lines[idx])
    /\ ~(cur # <<>> /\ ~Truthy(cur[1].title))
    /\ cur' = <<Entry(None, TitleOf(lines[idx]), CompanyOf(lines[idx]), <<>>)>>
    /\ idx' = idx + 1
    /\ UNCHANGED <<pc, text, norm, lines, entries, filtered, yearVars>>

\* lines 394-399: otherwise it closes the open entry and opens a new one
ExpSeparatorNew ==
    /\ InLoop
    /\ ~IsHeaderLabel(lines[idx])
    /\ ~IsDateLine(lines[idx])
    /\ IsSeparatorLine(lines[idx])
    /\ ~(cur # <<>> /\ ~Truthy(cur[1].title))
    /\ entries' = entries \o cur
    /\ cur' = <<Entry(None, TitleOf(lines[idx]), CompanyOf(lines[idx]), <<>>)>>
    /\ idx' = idx + 1
    /\ UNCHANGED <<pc, text, norm, lines, filtered, yearVars>>

\* lines 401-404: a generic line opens a loose entry or is appended
ExpDescription ==
    /\ InLoop
    /\ ~IsHeaderLabel(lines[idx])
    /\ ~IsDateLine(lines[idx])
    /\ ~IsSeparatorLine(lines[idx])
    /\ IF cur = <<>>
       THEN cur' = <<Entry(None, None, None, lines[idx])>>
       ELSE cur' = <<[cur[1] EXCEPT !.description =
                        strip(cur[1].description \o <<SP>> \o lines[idx])]>>
    /\ idx' = idx + 1
    /\ UNCHANGED <<pc, text, norm, lines, entries, filtered, yearVars>>

\* lines 405-417: the end of the input closes the open entry; the filter
ExpFinish ==
    /\ pc = "exp_loop" /\ idx > Len(lines)
    /\ entries' = entries \o cur
    /\ filtered' = SelectSeq(entries \o cur, KeepEntry)
    /\ pc' = "exp_done"
    /\ UNCHANGED <<text, norm, lines, idx, cur, yearVars>>

ExpNext ==
    \/ ExpBegin
    \/ ExpSkipHeader
    \/ ExpDateLine
    \/ ExpSeparatorFill
    \/ ExpSeparatorNew
    \/ ExpDescription
    \/ ExpFinish

\* The body of the loop of lines 373-404 as a function of the open entry,
\* the closed entries and the line.
LoopBody(st, line) ==
    IF IsHeaderLabel(line) THEN st
    ELSE IF IsDateLine(line)
    THEN [cur |-> <<Entry(strip(line), None, None, <<>>)>>,
          entries |-> st.entries \o st.cur]
    ELSE IF IsSeparatorLine(line)
    THEN IF st.cur # <<>> /\ ~Truthy(st.cur[1].title)
         THEN [st EXCEPT !.cur = <<[st.cur[1] EXCEPT !.title = TitleOf(line),
                                                    !.company = CompanyOf(line)]>>]
         ELSE [cur |-> <<Entry(None, TitleOf(line), CompanyOf(line), <<>>)>>,
               entries |-> st.entries \o st.cur]
    ELSE IF st.cur = <<>>
    THEN [st EXCEPT !.cur = <<Entry(None, None, None, line)>>]
    ELSE [st EXCEPT !.cur = <<[st.cur[1] EXCEPT !.description =
                                 strip(st.cur[1].description \o <<SP>> \o line)]>>]

RECURSIVE Loop(_, _)
Loop(st, ls) == IF ls = <<>> THEN st ELSE Loop(LoopBody(st, Head(ls)), Tail(ls))

\* parse_experience as the function parse_resume calls, lines 367-417
parse_experience(t) ==
    IF t = <<>> THEN <<>>
    ELSE SelectSeq(Loop([cur |-> <<>>, entries |-> <<>>], StrippedLines(t)).entries
                     \o Loop([cur |-> <<>>, entries |-> <<>>], StrippedLines(t)).cur,
                   KeepEntry)

\* The function returns what the steps of the loop come to.
StepsAgreeWithFunction == pc = "exp_done" => filtered = parse_experience(text)

----------------------------------------------------------------------------
(* The experience sections the model feeds to parse_experience *)

\* A line of words separated by single spaces; a word is a sequence of units.
Ln(ws) == Join(ws, <<SP>>)

DateRangeLines ==
    { Ln(<< <<"Jan">>, <<"2019">>, <<Hyphen>>, <<"Mar">>, <<"2021">> >>),
      Ln(<< <<"Apr">>, <<"2021">>, <<Hyphen>>, <<"present">> >>) }

Titles ==
    { Ln(<< <<"Software">>, <<"Engineer">> >>),
      Ln(<< <<"Senior">>, <<"Engineer">> >>),
      Ln(<< <<"Experience">> >>) }

Companies == { Ln(<< <<"Acme">>, <<"Corp">> >>) }

\* "Title <em dash> Company"
TitleCompany(t, c) == t \o <<SP, EmDash, SP>> \o c

TitleCompanyLines == {TitleCompany(t, c) : t \in Titles, c \in Companies}

PlainLines ==
    { Ln(<< <<"Built">>, <<"X", ".">> >>),
      Ln(<< <<"Led">>, <<"Y", ".">> >>) }

\* A line of thirteen words, one of them a hyphen.
LongLine ==
    Ln(<< <<"Built">>, <<"a">>, <<"b">>, <<"c">>, <<"d">>, <<"e">>, <<"f">>,
          <<Hyphen>>, <<"g">>, <<"h">>, <<"i">>, <<"j">>, <<"k">> >>)

OtherLines ==
    { Ln(<< <<"Experience">> >>),
      Ln(<< <<"SKILLS">> >>),
      Ln(<< <<"2019">> >>),
      Ln(<< <<"2019">>, <<"|">>, <<"Acme">> >>),
      Ln(<< <<"Engineer">>, <<"|">>, <<"Acme">> >>),
      Ln(<< <<"Engineer", "|", "Acme">> >>),
      Ln(<< <<"Engineer">>, <<"at">>, <<"Acme">> >>),
      Ln(<< <<"Engineer">>, <<EnDash>>, <<"Acme">> >>),
      Ln(<< <<"Current">>, <<"Director">> >>),
      Ln(<< <<Hyphen>>, <<"Led">>, <<"Y", ".">> >>),
      LongLine,
      <<SP>> }

ExpCatalogue ==
    DateRangeLines \cup TitleCompanyLines \cup PlainLines \cup OtherLines

\* The runs of description lines of a block.
DescRuns == {<<p>> : p \in PlainLines} \cup {<<p, q>> : p, q \in PlainLines}

Blocks ==
    {<<d, t>> \o ps : d \in DateRangeLines, t \in TitleCompanyLines, ps \in DescRuns}

BlockSections ==
    {Join(Flatten(bs), <<NL>>) : bs \in SeqsUpTo(Blocks, MaxBlocks)}

LineSections ==
    {Join(ls, <<NL>>) : ls \in SeqsUpTo(ExpCatalogue, MaxExpLines)}

ExpInit ==
    /\ pc = "exp_start"
    /\ text \in LineSections \cup BlockSections
    /\ norm = <<>>
    /\ ExpIdle
    /\ YearsIdle

SpecExp == ExpInit /\ [][ExpNext]_vars

\* The section is a sequence of blocks: a date-range line, a
\* "Title <em dash> Company" line, then one or more plain lines.
IsBlockSection(ls) ==
    /\ \A i \in 1..Len(ls) :
          ls[i] \in DateRangeLines \cup TitleCompanyLines \cup PlainLines
    /\ ls # <<>> => ls[1] \in DateRangeLines
    /\ \A i \in 1..Len(ls) :
          ls[i] \in DateRangeLines =>
              /\ i + 2 <= Len(ls)
              /\ ls[i + 1] \in TitleCompanyLines
              /\ ls[i + 2] \in PlainLines
    /\ \A i \in 1..Len(ls) :
          ls[i] \in TitleCompanyLines => i > 1 /\ ls[i - 1] \in DateRangeLines

DateIdx(ls) == {i \in 1..Len(ls) : ls[i] \in DateRangeLines}

\* The index of the date line of the k-th block, and of the block's last line.
BlockStart(ls, k) ==
    CHOOSE i \in DateIdx(ls) : Cardinality({j \in DateIdx(ls) : j <= i}) = k

BlockEnd(ls, k) ==
    IF k < Cardinality(DateIdx(ls)) THEN BlockStart(ls, k + 1) - 1 ELSE Len(ls)

Contains(t, part) ==
    \E i \in 0..(Len(t) - Len(part)) : SubSeq(t, i + 1, i + Len(part)) = part

\* The entry e is what the claim says of block k of section ls.
EntryOfBlock(e, ls, k) ==
    LET p == BlockStart(ls, k)
        q == BlockEnd(ls, k)
    IN  /\ e.dates = ls[p]
        /\ e.title \in Titles /\ e.company \in Companies
        /\ TitleCompany(e.title, e.company) = ls[p + 1]
        /\ \A i \in (p + 2)..q : Contains(e.description, ls[i])
        /\ \A i \in 1..Len(ls) :
              (i < p \/ i > q) /\ (\A j \in (p + 2)..q : ls[j] # ls[i])
                  => ~Contains(e.description, ls[i])

\* C1: a section of k blocks (date-range line, "Title <em dash> Company"
\* line, plain description lines) yields exactly k entries in block order,
\* each with the dates, title, company and description lines of its block.
C1_BlocksYieldEntries ==
    pc = "exp_done" /\ IsBlockSection(splitlines(text)) =>
        /\ Len(filtered) = Cardinality(DateIdx(splitlines(text)))
        /\ \A k \in 1..Len(filtered) :
              EntryOfBlock(filtered[k], splitlines(text), k)

\* The same for the sections none of whose titles is a label the filter of
\* line 414 drops.
BlocksWithoutDroppedTitle ==
    pc = "exp_done" /\ IsBlockSection(splitlines(text))
      /\ (\A i \in 1..Len(lines) :
            lines[i] \in TitleCompanyLines =>
                upper(TitleOf(lines[i])) \notin DroppedLabels) =>
        /\ Len(filtered) = Cardinality(DateIdx(splitlines(text)))
        /\ \A k \in 1..Len(filtered) :
              EntryOfBlock(filtered[k], splitlines(text), k)

\* C13: a line that is no header label and passes the date-line test of
\* line 378 closes the open entry, if any, and opens an entry with that
\* line as dates, no title, no company and an empty description, also when
\* the line passes the separator test.
C13_DateLineFirst ==
    [][(InLoop /\ ~IsHeaderLabel(lines[idx]) /\ IsDateLine(lines[idx]))
         => /\ entries' = entries \o cur
            /\ cur' = <<Entry(lines[idx], None, None, <<>>)>>
            /\ idx' = idx + 1]_vars

\* A date line that is a separator line too came after an open entry
\* without a title; that entry was closed.
C13_Witness ==
    /\ pc = "exp_loop" /\ idx > 2
    /\ IsDateLine(lines[idx - 1]) /\ IsSeparatorLine(lines[idx - 1])
    /\ IsDateLine(lines[idx - 2])
    /\ cur = <<Entry(lines[idx - 1], None, None, <<>>)>>
    /\ entries # <<>> /\ Last(entries) = Entry(lines[idx - 2], None, None, <<>>)

\* The line the loop is at is a separator line that is no header label and
\* no date line.
AtSeparatorLine ==
    /\ InLoop
    /\ ~IsHeaderLabel(lines[idx])
    /\ ~IsDateLine(lines[idx])
    /\ IsSeparatorLine(lines[idx])

\* C14, the rule: a separator line fills the open entry that has no title
\* and closes none; in every other case it closes the open entry, if any,
\* and opens one with its title and company and no dates.
C14_FillOrOpen ==
    [][AtSeparatorLine =>
         IF cur # <<>> /\ ~Truthy(cur[1].title)
         THEN /\ entries' = entries
              /\ cur' = <<[cur[1] EXCEPT !.title = TitleOf(lines[idx]),
                                         !.company = CompanyOf(lines[idx])]>>
         ELSE /\ entries' = entries \o cur
              /\ cur' = <<Entry(None, TitleOf(lines[idx]), CompanyOf(lines[idx]), <<>>)>>]_vars

\* The section is a date line and two separator lines.
DateAndTwoSeparatorLines(ls) ==
    /\ Len(ls) = 3
    /\ ~IsHeaderLabel(ls[1]) /\ IsDateLine(ls[1])
    /\ \A k \in 2..3 :
          ~IsHeaderLabel(ls[k]) /\ ~IsDateLine(ls[k]) /\ IsSeparatorLine(ls[k])

\* C14, the consequence: two separator lines after a date line yield two
\* entries, the second without dates.
C14_TwoSeparatorLines ==
    pc = "exp_done" /\ DateAndTwoSeparatorLines(StrippedLines(text))
      => Len(filtered) = 2 /\ filtered[2].dates = None

\* C14: the rule and its consequence.
C14_SeparatorLine == C14_FillOrOpen /\ []C14_TwoSeparatorLines

\* The consequence that holds: when the first of the two separator lines
\* has a title, the loop closes two entries, the second without dates.
TwoTitledSeparatorLines ==
    pc = "exp_done" /\ DateAndTwoSeparatorLines(StrippedLines(text))
      /\ Truthy(TitleOf(StrippedLines(text)[2]))
      => /\ Len(entries) = 2
         /\ entries[1].dates = StrippedLines(text)[1]
         /\ entries[1].title = TitleOf(StrippedLines(text)[2])
         /\ entries[2].dates = None
         /\ entries[2].title = TitleOf(StrippedLines(text)[3])

C14_SeparatorLineTitled == C14_FillOrOpen /\ []TwoTitledSeparatorLines

C14_Witness ==
    /\ pc = "exp_done" /\ DateAndTwoSeparatorLines(StrippedLines(text))
    /\ Truthy(TitleOf(StrippedLines(text)[2]))
    /\ Len(entries) = 2 /\ entries[2].dates = None

\* C15: an entry whose title is a section-header label and that has dates,
\* a company or a description too is kept in the output.
C15_LabelTitleKept ==
    pc = "exp_done" =>
        \A k \in 1..Len(entries) :
            ( /\ Truthy(entries[k].title)
              /\ upper(strip(entries[k].title)) \in DroppedLabels
              /\ \/ Truthy(entries[k].dates)
                 \/ Truthy(entries[k].company)
                 \/ Truthy(entries[k].description) )
            => \E j \in 1..Len(filtered) : filtered[j] = entries[k]

\* The line holds one of the separators listed: an em-dash, a hyphen, a
\* pipe with or without spaces around it, or " at ".
ListedSeparator(line) ==
    \E i \in 1..Len(line) :
        line[i] \in {EmDash, Hyphen, "|"} \/ SpacedAt(line, i, "at")

\* C16: a line of at most 12 words that is no header label and no date
\* line and holds a listed separator gives the open entry its title (the
\* first segment) and company (the second) and is not appended to a
\* description.
C16_SeparatorLinesSplit ==
    [][( /\ InLoop
         /\ ~IsHeaderLabel(lines[idx])
         /\ ~IsDateLine(lines[idx])
         /\ WordCount(lines[idx]) <= MaxTitleWords
         /\ ListedSeparator(lines[idx]) )
         => /\ cur' # <<>>
            /\ cur'[1].title = TitleOf(lines[idx])
            /\ cur'[1].company = CompanyOf(lines[idx])
            /\ cur'[1].description =
                  IF cur # <<>> /\ ~Truthy(cur[1].title)
                  THEN cur[1].description ELSE <<>>]_vars

\* A title/company separator line in the words of the rule: at most 12
\* words and an em-dash, a hyphen, a pipe, ", at" or " at ".
ListedSeparatorLine(line) ==
    WordCount(line) <= MaxTitleWords /\ ListedSeparator(line)

\* What one step of the loop does to the description of the open entry,
\* for a given test of separator lines: a generic line (no header label,
\* no date line, no separator line) opens a bare entry with the line as
\* its description or is appended, after a space, to the description of
\* the open entry; any other line leaves the description of the open entry
\* as it is or opens an entry with an empty description.
DescriptionStep(IsSeparator(_)) ==
    InLoop =>
        IF /\ ~IsHeaderLabel(lines[idx])
           /\ ~IsDateLine(lines[idx])
           /\ ~IsSeparator(lines[idx])
        THEN /\ cur' # <<>>
             /\ entries' = entries
             /\ cur'[1].description =
                   IF cur = <<>> \/ cur[1].description = <<>>
                   THEN lines[idx]
                   ELSE cur[1].description \o <<SP>> \o lines[idx]
        ELSE \/ cur' = cur
             \/ /\ cur' # <<>> /\ cur # <<>>
                /\ cur'[1].description = cur[1].description
                /\ entries' = entries
             \/ /\ cur' # <<>>
                /\ cur'[1].description = <<>>
                /\ entries' = entries \o cur

\* Every entry returned is one the loop closed, description included, and
\* has a populated field.
OutputPopulated ==
    pc = "exp_done" =>
        \A i \in 1..Len(filtered) :
            /\ \E j \in 1..Len(entries) : entries[j] = filtered[i]
            /\ \/ Truthy(filtered[i].dates) \/ Truthy(filtered[i].title)
               \/ Truthy(filtered[i].company) \/ Truthy(filtered[i].description)

\* The description rule with the separator test of line 385.
DescriptionsOfCodeGenericLines ==
    [][DescriptionStep(IsSeparatorLine) /\ OutputPopulated']_vars

\* C19: the description of an entry is the space-joined generic lines
\* (no header label, no date line, no separator line) seen while it was
\* open, the opening line first for a bare entry; a generic line goes into
\* one entry only; every entry returned has a populated field.
C19_DescriptionsOfGenericLines ==
    [][DescriptionStep(ListedSeparatorLine) /\ OutputPopulated']_vars

\* a is b with some of its elements left out, the order kept.
RECURSIVE IsSubsequence(_, _)
IsSubsequence(a, b) ==
    IF a = <<>> THEN TRUE
    ELSE IF b = <<>> THEN FALSE
    ELSE IF Head(a) = Head(b) THEN IsSubsequence(Tail(a), Tail(b))
    ELSE IsSubsequence(a, Tail(b))

\* C20: at most one entry is open; a step of parse_experience leaves the
\* closed entries as they are and appends at most the open entry, so the
\* entries are in the order of their opening; a header label changes
\* neither the open entry nor the closed entries; the end of the input
\* closes the open entry; the list returned keeps the order of the closed
\* entries.
C20_ClosedEntriesFrozen ==
    [][ /\ Len(cur) <= 1 /\ Len(cur') <= 1
        /\ entries' \in {entries, entries \o cur}
        /\ (entries' # entries /\ InLoop) => cur' # <<>>
        /\ (InLoop /\ IsHeaderLabel(lines[idx]))
              => (cur' = cur /\ entries' = entries)
        /\ (pc = "exp_loop" /\ idx > Len(lines))
              => /\ entries' = entries \o cur
                 /\ pc' = "exp_done"
                 /\ IsSubsequence(filtered', entries')
      ]_vars

\* A loose entry is open at a header label, a date line then closes it,
\* and the end of the input closes the dated entry: two entries returned.
C20_Witness ==
    /\ pc = "exp_done"
    /\ Len(lines) = 3
    /\ IsHeaderLabel(lines[2])
    /\ IsDateLine(lines[3])
    /\ Len(entries) = 2
    /\ filtered = entries
    /\ entries[1].description = lines[1]
    /\ entries[2].dates = lines[3]

----------------------------------------------------------------------------
(* estimate_years_experience, lines 298-340 *)

YearVal(u) ==
    CASE u = "1899" -> 1899
      [] u = "2015" -> 2015
      [] u = "2018" -> 2018
      [] u = "2019" -> 2019
      [] u = "2020" -> 2020
      [] u = "2021" -> 2021
      [] u = "2030" -> 2030
      [] u = "2040" -> 2040

NoYear == 0

\* The last unit of the maximal run of class units that starts at p.
RECURSIVE RunEnd(_, _)
RunEnd(t, p) ==
    IF p < Len(t) /\ InRangeClass(t[p + 1]) THEN RunEnd(t, p + 1) ELSE p

IsInnerTo(u) == ToPos(u) = "inner"

\* RANGE_RE can take the separator at q after a start group that begins at
\* p: the units p..q-1 are of the class, one character at least stands
\* before the separator and a character of the class right after it.
ValidSep(t, p, q) ==
    /\ \A j \in p..(q - 1) : InRangeClass(t[j])
    /\ \/ IsInnerTo(t[q])
       \/ /\ ToPos(t[q]) = "whole" \/ t[q] \in {Hyphen, EnDash, EmDash}
          /\ q > p
          /\ q < Len(t) /\ InRangeClass(t[q + 1])

\* The lazy start group ends before the first such separator; 0 when none.
FirstSep(t, p) ==
    IF \E q \in p..Len(t) : ValidSep(t, p, q)
    THEN CHOOSE q \in p..Len(t) :
            /\ ValidSep(t, p, q)
            /\ \A r \in p..(q - 1) : ~ValidSep(t, p, r)
    ELSE 0

\* The greedy end group runs to the end of the class run after the
\* separator.  Of a word with "to" inside, the letters before belong to the
\* start group and the letters after to the end group; they hold no date.
MatchEnd(t, q) == IF IsInnerTo(t[q]) THEN RunEnd(t, q) ELSE RunEnd(t, q + 1)

\* RANGE_RE.finditer(text) from position p: the (start, end) groups.
RECURSIVE RangeMatches(_, _)
RangeMatches(t, p) ==
    IF p > Len(t) THEN <<>>
    ELSE IF ~InRangeClass(t[p]) THEN RangeMatches(t, p + 1)
    ELSE IF FirstSep(t, p) = 0 THEN RangeMatches(t, RunEnd(t, p) + 1)
    ELSE LET q == FirstSep(t, p)
         IN  << [start |-> SubSeq(t, p, q - 1),
                 end |-> SubSeq(t, q + 1, MatchEnd(t, q))] >>
             \o RangeMatches(t, MatchEnd(t, q) + 1)

\* YEAR_RE.search(tok), line 304: the first year 1900..2099, or NoYear.
RECURSIVE FirstYear(_)
FirstYear(tok) ==
    IF tok = <<>> THEN NoYear
    ELSE IF Head(tok) \in Years1920 THEN YearVal(Head(tok))
    ELSE FirstYear(Tail(tok))

\* MONTH_YEAR_RE.search(tok), line 307: a month name, white space, a comma
\* at most, white space, four digits.
RECURSIVE SkipSpaces(_)
SkipSpaces(tok) == IF tok # <<>> /\ IsSpace(Head(tok)) THEN SkipSpaces(Tail(tok)) ELSE tok

AfterMonth(tok) ==
    LET a == SkipSpaces(tok)
        b == IF a # <<>> /\ Head(a) = "," THEN SkipSpaces(Tail(a)) ELSE a
    IN  IF b # <<>> /\ Head(b) \in FourDigits THEN YearVal(Head(b)) ELSE NoYear

RECURSIVE MonthYear(_)
MonthYear(tok) ==
    IF tok = <<>> THEN NoYear
    ELSE IF LowerUnit(Head(tok)) \in MonthWords /\ AfterMonth(Tail(tok)) # NoYear
         THEN AfterMonth(Tail(tok))
    ELSE MonthYear(Tail(tok))

\* parse_year_from_token, lines 302-310
parse_year_from_token(tok) ==
    IF FirstYear(tok) # NoYear THEN FirstYear(tok) ELSE MonthYear(tok)

\* re.search(r"present|current|now", e, re.I), line 321
PresentSearch(e) ==
    \E i \in 1..Len(e) : LowerUnit(e[i]) \in {"present", "current", "now"}

\* lines 319-324: the years of one match, NoYear for None
StartYear(m) ==
    IF parse_year_from_token(m.start) # NoYear
    THEN parse_year_from_token(m.start)
    ELSE parse_year_from_token(m.end)

EndYear(m, now) ==
    IF PresentSearch(m.end) THEN now ELSE parse_year_from_token(m.end)

\* lines 316-327: the ranges kept
RangeYears(t, now) ==
    { <<StartYear(RangeMatches(t, 1)[i]), EndYear(RangeMatches(t, 1)[i], now)>> :
        i \in { j \in 1..Len(RangeMatches(t, 1)) :
                  /\ StartYear(RangeMatches(t, 1)[j]) # NoYear
                  /\ EndYear(RangeMatches(t, 1)[j], now) # NoYear
                  /\ EndYear(RangeMatches(t, 1)[j], now)
                        >= StartYear(RangeMatches(t, 1)[j]) } }

\* line 330: the years 1900..2099 of the text
FoundYears(t) == {YearVal(t[i]) : i \in {j \in 1..Len(t) : t[j] \in Years1920}}

SetMin(S) == CHOOSE x \in S : \A y \in S : x <= y
SetMax(S) == CHOOSE x \in S : \A y \in S : x >= y

\* lines 329-332: the fallback
FallbackYears(t, now) ==
    IF FoundYears(t) = {} THEN {}
    ELSE {<<SetMin(FoundYears(t)),
            IF SetMax(FoundYears(t)) <= now THEN SetMax(FoundYears(t)) ELSE now>>}

YearPairs(t, now) ==
    IF RangeYears(t, now) # {} THEN RangeYears(t, now) ELSE FallbackYears(t, now)

\* lines 312-340; the float returned is a whole number
estimate_years_experience(t, now) ==
    IF YearPairs(t, now) = {} THEN 0
    ELSE SetMax({pr[2] : pr \in YearPairs(t, now)})
           - SetMin({pr[1] : pr \in YearPairs(t, now)})

NowYears == {2024, 2026}

YearWords ==
    {"1899", "2015", "2020", "2030", "Jan", "present", Hyphen, "to", "Boston",
     ",", EmDash}

WordsText(ws) == Join([i \in 1..Len(ws) |-> <<ws[i]>>], <<SP>>)

YearsInit ==
    /\ pc = "years_start"
    /\ text \in {WordsText(ws) : ws \in SeqsUpTo(YearWords, MaxYearWords)}
    /\ now_year \in NowYears
    /\ years_exp = 0
    /\ phones = <<>>
    /\ sections = <<>>
    /\ norm = <<>>
    /\ ExpIdle
    /\ FileIdle

EstimateYears ==
    /\ pc = "years_start"
    /\ years_exp' = estimate_years_experience(text, now_year)
    /\ pc' = "years_done"
    /\ UNCHANGED <<text, norm, expVars, now_year, phones, sections, fileVars>>

YearsNext == EstimateYears

SpecYears == YearsInit /\ [][YearsNext]_vars

\* C6: the estimate is never negative, whatever the text and the current year.
C6_YearsNonNegative == pc = "years_done" => years_exp >= 0

\* The four-digit years written in the text.
FourDigitYears(t) == {YearVal(t[i]) : i \in {j \in 1..Len(t) : t[j] \in FourDigits}}

\* No range is written in the text: no dash and no word "to".
NoRangeWritten(t) ==
    \A i \in 1..Len(t) :
        t[i] \notin {Hyphen, EnDash, EmDash} /\ LowerUnit(t[i]) # "to"

\* The text holds "<Month> Y - present" at units i..i+6, no other range
\* and no other four-digit year.
OnlyRangeToPresent(t, i, y) ==
    /\ i + 6 <= Len(t)
    /\ LowerUnit(t[i]) \in MonthWords
    /\ t[i + 1] = SP /\ t[i + 2] \in FourDigits /\ YearVal(t[i + 2]) = y
    /\ t[i + 3] = SP /\ t[i + 4] = Hyphen
    /\ t[i + 5] = SP /\ t[i + 6] = "present"
    /\ NoRangeWritten(SubSeq(t, 1, i - 1) \o SubSeq(t, i + 7, Len(t)))
    /\ FourDigitYears(SubSeq(t, 1, i - 1) \o SubSeq(t, i + 7, Len(t))) = {}

\* C8, first half: with no range written and the four-digit years
\* Y1 <= Y2 <= current year only, the estimate is Y2 - Y1.
C8_BareYears ==
    pc = "years_done" /\ NoRangeWritten(text)
      /\ FourDigitYears(text) # {} /\ Cardinality(FourDigitYears(text)) <= 2
      /\ SetMax(FourDigitYears(text)) <= now_year
      => years_exp = SetMax(FourDigitYears(text)) - SetMin(FourDigitYears(text))

\* C8, second half: with "<Month> Y - present" the only range, the estimate
\* is current year - Y.
C8_RangeToPresent ==
    pc = "years_done" =>
        \A i \in 1..Len(text) : \A y \in {YearVal(u) : u \in FourDigits} :
            OnlyRangeToPresent(text, i, y) => years_exp = now_year - y

\* C8: both halves.
C8_YearsEstimate == C8_BareYears /\ C8_RangeToPresent

----------------------------------------------------------------------------
(* extract_phones, lines 103-118.  Here a unit is one character; a word   *)
(* of letters, which PHONE_RE cannot match, stays one unit.                *)

DigitChars == <<"0", "1", "2", "3", "4", "5", "6", "7", "8", "9">>

IsDigit(u) == \E d \in 1..Len(DigitChars) : DigitChars[d] = u

IsDigitAt(t, p) == p >= 1 /\ p <= Len(t) /\ IsDigit(t[p])

\* [\s-]
IsSepAt(t, p) == p >= 1 /\ p <= Len(t) /\ (IsSpace(t[p]) \/ t[p] = Hyphen)

AllDigits(t, p, n) == \A j \in p..(p + n - 1) : IsDigitAt(t, j)

\* The first result other than 0 of a sequence of results, 0 when none.
FirstMatch(rs) ==
    IF \E i \in 1..Len(rs) : rs[i] # 0
    THEN rs[CHOOSE i \in 1..Len(rs) : rs[i] # 0 /\ \A j \in 1..(i - 1) : rs[j] = 0]
    ELSE 0

MinPhoneRun == 6
MaxPhoneRun == 10

\* \d{6,10} at p, greedy: the position after the match, 0 when none.
MatchRun(t, p) ==
    FirstMatch([k \in 1..(MaxPhoneRun - MinPhoneRun + 1) |->
        IF AllDigits(t, p, MaxPhoneRun + 1 - k) THEN p + MaxPhoneRun + 1 - k ELSE 0])

\* The choices of a group of n digits (most first) with an optional
\* character after it (taken first), in the order the matcher tries them.
GroupChoices(most, least) ==
    [k \in 1..(2 * (most - least + 1)) |->
        [n |-> most - ((k - 1) \div 2), tail |-> k % 2 = 1]]

\* (?:\(?\d{2,4}\)?[\s-]?)?\d{6,10} at p
AreaChoices ==
    [k \in 1..12 |->
        [n |-> 4 - ((k - 1) \div 4),
         close |-> ((k - 1) \div 2) % 2 = 0,
         tail |-> k % 2 = 1]]

MatchArea(t, p) ==
    LET open == IF p <= Len(t) /\ t[p] = "(" THEN 1 ELSE 0
        try(c) ==
            LET a == p + open + c.n
                b == IF c.close THEN a + 1 ELSE a
                e == IF c.tail THEN b + 1 ELSE b
            IN  IF /\ AllDigits(t, p + open, c.n)
                   /\ c.close => (a <= Len(t) /\ t[a] = ")")
                   /\ c.tail => IsSepAt(t, b)
                THEN MatchRun(t, e) ELSE 0
    IN  FirstMatch([k \in 1..Len(AreaChoices) |-> try(AreaChoices[k])]
                   \o <<MatchRun(t, p)>>)

\* PHONE_RE at p: (\+?\d{1,3}[\s-]?)? and the rest
MatchPhone(t, p) ==
    LET plus == IF p <= Len(t) /\ t[p] = "+" THEN 1 ELSE 0
        try(c) ==
            LET a == p + plus + c.n
                e == IF c.tail THEN a + 1 ELSE a
            IN  IF AllDigits(t, p + plus, c.n) /\ (c.tail => IsSepAt(t, a))
                THEN MatchArea(t, e) ELSE 0
    IN  FirstMatch([k \in 1..Len(GroupChoices(3, 1)) |-> try(GroupChoices(3, 1)[k])]
                   \o <<MatchArea(t, p)>>)

\* PHONE_RE.finditer(text) from position p: the matched substrings
RECURSIVE PhoneMatches(_, _)
PhoneMatches(t, p) ==
    IF p > Len(t) THEN <<>>
    ELSE IF MatchPhone(t, p) = 0 THEN PhoneMatches(t, p + 1)
    ELSE <<SubSeq(t, p, MatchPhone(t, p) - 1)>> \o PhoneMatches(t, MatchPhone(t, p))

\* re.sub(r"\D", "", s)
DigitsOf(s) == SelectSeq(s, IsDigit)

MinPhoneDigits == 7

\* The set xs of lines 113-117
PhoneSet(t) ==
    {strip(PhoneMatches(t, 1)[i]) :
        i \in {j \in 1..Len(PhoneMatches(t, 1)) :
                 Len(DigitsOf(strip(PhoneMatches(t, 1)[j]))) >= MinPhoneDigits}}

\* list(xs): the elements of the set in the order of its hash table
ListsOf(S) ==
    {l \in [1..Cardinality(S) -> S] : \A i, j \in 1..Cardinality(S) : l[i] = l[j] => i = j}

Digits(ds) == [i \in 1..Len(ds) |-> DigitChars[ds[i] + 1]]

NumberA == Digits(<<9, 8, 7>>) \o <<Hyphen>> \o Digits(<<6, 5, 4>>) \o <<Hyphen>>
             \o Digits(<<3, 2, 1, 0>>)
NumberB == <<"(">> \o Digits(<<1, 2, 3>>) \o <<")", SP>> \o Digits(<<4, 5, 6>>)
             \o <<Hyphen>> \o Digits(<<7, 8, 9, 0>>)

\* "Call 987-654-3210 or (123) 456-7890 ext 5"
PhoneExample ==
    <<"Call", SP>> \o NumberA \o <<SP, "or", SP>> \o NumberB
      \o <<SP, "ext", SP, "5">>

\* Numbers written as digit groups with hyphens, spaces or parentheses.
WrittenNumbers ==
    { NumberA, NumberB,
      Digits(<<9, 8, 7, 6, 5, 4, 3, 2, 1, 0>>),
      <<"(">> \o Digits(<<1, 2, 3>>) \o <<")", SP>> \o Digits(<<4, 5, 6, 7, 8, 9, 0>>),
      <<"+">> \o Digits(<<9, 1>>) \o <<SP>> \o Digits(<<9, 8, 7, 6, 5, 4, 3, 2, 1, 0>>),
      Digits(<<5, 5, 5>>) \o <<Hyphen>> \o Digits(<<1, 2, 3, 4>>),
      Digits(<<1, 2, 3, 4, 5, 6, 7>>) }

PhonePieces ==
    WrittenNumbers \cup {<<"Call">>, Digits(<<1, 2, 3, 4, 5>>), <<"ext", SP, "5">>}

PhoneTexts ==
    {PhoneExample} \cup
    {Join(ps, <<",", SP>>) : ps \in SeqsUpTo(PhonePieces, MaxPhonePieces)}

PhonesInit ==
    /\ pc = "phones_start"
    /\ text \in PhoneTexts
    /\ phones = <<>>
    /\ sections = <<>>
    /\ now_year = 0
    /\ years_exp = 0
    /\ norm = <<>>
    /\ ExpIdle
    /\ FileIdle

ExtractPhones ==
    /\ pc = "phones_start"
    /\ phones' \in ListsOf(PhoneSet(text))
    /\ pc' = "phones_done"
    /\ UNCHANGED <<text, norm, expVars, now_year, years_exp, sections, fileVars>>

PhonesNext == ExtractPhones

SpecPhones == PhonesInit /\ [][PhonesNext]_vars

\* The text holds the number n between its start, its end or a ", ".
Written(t, n) ==
    \E i \in 0..(Len(t) - Len(n)) :
        /\ SubSeq(t, i + 1, i + Len(n)) = n
        /\ i = 0 \/ IsSpace(t[i])
        /\ i + Len(n) = Len(t) \/ t[i + Len(n) + 1] \in {",", SP}

\* C9: for "Call 987-654-3210 or (123) 456-7890 ext 5" exactly two phones,
\* without duplicates, come back, one per number; and every number written
\* as digit groups with seven digits or more comes back.
C9_PhonesFound ==
    pc = "phones_done" =>
        /\ \A i, j \in 1..Len(phones) : phones[i] = phones[j] => i = j
        /\ text = PhoneExample =>
              /\ Len(phones) = 2
              /\ {DigitsOf(phones[i]) : i \in 1..Len(phones)}
                    = {DigitsOf(NumberA), DigitsOf(NumberB)}
        /\ \A n \in WrittenNumbers :
              Written(text, n) /\ Len(DigitsOf(n)) >= MinPhoneDigits =>
                  \E i \in 1..Len(phones) : DigitsOf(phones[i]) = DigitsOf(n)

----------------------------------------------------------------------------
(* split_sections, lines 121-149 *)

\* SECTION_MARKERS of one word, lines 122-124
MarkerWords ==
    {"experience", "employment", "education", "projects", "skills", "summary",
     "certifications", "publications"}

\* The length of the match of the pattern of line 131 at position i of the
\* lower-cased text, 0 when none ("work experience" is three units).
MarkerLen(low, i) ==
    IF low[i] \in MarkerWords THEN 1
    ELSE IF /\ low[i] = "work" /\ i + 2 <= Len(low)
            /\ low[i + 1] = SP /\ low[i + 2] = "experience" THEN 3
    ELSE 0

\* re.finditer(pattern, lower), lines 135-136: the start positions
RECURSIVE MarkerStarts(_, _)
MarkerStarts(low, i) ==
    IF i > Len(low) THEN <<>>
    ELSE IF MarkerLen(low, i) > 0
         THEN <<i>> \o MarkerStarts(low, i + MarkerLen(low, i))
         ELSE MarkerStarts(low, i + 1)

\* lines 128-129
Joined(t) == Join(StrippedLines(t), <<NL>>)

\* sections[key] = value on a dict kept as a sequence of (key, value) pairs
DictSet(d, k, v) ==
    IF \E i \in 1..Len(d) : d[i][1] = k
    THEN [i \in 1..Len(d) |-> IF d[i][1] = k THEN <<k, v>> ELSE d[i]]
    ELSE Append(d, <<k, v>>)

HasKey(d, k) == \E i \in 1..Len(d) : d[i][1] = k

\* sections.get(k, default)
DictGet(d, k, default) ==
    IF HasKey(d, k) THEN d[CHOOSE i \in 1..Len(d) : d[i][1] = k][2] ELSE default

RawKey == <<"raw">>

\* lines 140-146: the span of the i-th match, stored under its first line
Snippet(joined, starts, i) ==
    strip(SubSeq(joined, starts[i],
                 IF i + 1 <= Len(starts) THEN starts[i + 1] - 1 ELSE Len(joined)))

RECURSIVE StoreSpans(_, _, _, _)
StoreSpans(d, joined, starts, i) ==
    IF i > Len(starts) THEN d
    ELSE StoreSpans(
            DictSet(d, lower(splitlines(Snippet(joined, starts, i))[1]),
                    Snippet(joined, starts, i)),
            joined, starts, i + 1)

split_sections(t) ==
    IF MarkerStarts(lower(Joined(t)), 1) = <<>>
    THEN <<<<RawKey, Joined(t)>>>>
    ELSE DictSet(StoreSpans(<<>>, Joined(t), MarkerStarts(lower(Joined(t)), 1), 1),
                 RawKey, Joined(t))

SegLines ==
    { Ln(<< <<"John">>, <<"Doe">> >>),
      Ln(<< <<"Experience">> >>),
      Ln(<< <<"Work">>, <<"experience">> >>),
      Ln(<< <<"Acme">>, <<"2019">> >>),
      Ln(<< <<"Education">> >>),
      Ln(<< <<"my">>, <<"skills">>, <<"and">>, <<"projects">> >>),
      Ln(<< <<"Skills", ":">>, <<"Python">> >>),
      <<>> }

SegInit ==
    /\ pc = "seg_start"
    /\ text \in {Join(ls, <<NL>>) : ls \in SeqsUpTo(SegLines, MaxSegLines)}
    /\ sections = <<>>
    /\ phones = <<>>
    /\ now_year = 0
    /\ years_exp = 0
    /\ norm = <<>>
    /\ ExpIdle
    /\ FileIdle

SplitSections ==
    /\ pc = "seg_start"
    /\ sections' = split_sections(text)
    /\ pc' = "seg_done"
    /\ UNCHANGED <<text, norm, expVars, now_year, years_exp, phones, fileVars>>

SegNext == SplitSections

SpecSeg == SegInit /\ [][SegNext]_vars

\* The section blocks in discovery order without the "raw" copy of the
\* whole text; the whole text when no header was found.
SectionBlocks(d) ==
    IF Len(d) = 1 /\ d[1][1] = RawKey THEN <<d[1][2]>>
    ELSE [i \in 1..Len(SelectSeq(d, LAMBDA kv : kv[1] # RawKey)) |->
             SelectSeq(d, LAMBDA kv : kv[1] # RawKey)[i][2]]

\* A text without its white space.
Inked(t) == SelectSeq(t, LAMBDA u : ~IsSpace(u))

\* C2: the section blocks, in discovery order and without "raw", make up
\* the text again but for the white space between them: nothing before the
\* first header is lost, and no span that shares its first line with another.
C2_SectionsReconstructText ==
    pc = "seg_done" => Inked(Flatten(SectionBlocks(sections))) = Inked(text)

----------------------------------------------------------------------------
(* parse_resume, line 446: text = re.sub(r"\n{2,}", "\n", text) *)

\* A mutant that leaves a run of three or more newlines as two.
RECURSIVE NormalizePairs(_)
NormalizePairs(t) ==
    IF Len(t) < 2 THEN t
    ELSE IF t[1] = NL /\ t[2] = NL
         THEN <<NL>> \o NormalizePairs(Tail(Tail(t)))
         ELSE <<t[1]>> \o NormalizePairs(Tail(t))

RECURSIVE Normalize(_)
Normalize(t) ==
    IF Len(t) < 2 THEN t
    ELSE IF t[1] = NL /\ t[2] = NL THEN Normalize(Tail(t))
    ELSE <<t[1]>> \o Normalize(Tail(t))

NormUnits == {"a", SP, NL}

NormInit ==
    /\ pc = "norm_start"
    /\ text \in SeqsUpTo(NormUnits, MaxRawLen)
    /\ norm = <<>>
    /\ ExpIdle
    /\ YearsIdle
    /\ FileIdle

NormalizeStep ==
    /\ pc = "norm_start"
    /\ norm' = Normalize(text)
    /\ pc' = "norm_done"
    /\ UNCHANGED <<text, expVars, yearVars>>

NormNext == NormalizeStep

SpecNorm == NormInit /\ [][NormNext]_vars

\* The maximal runs of units other than newlines.
Segments(t) == SelectSeq(splitlines(t), LAMBDA l : l # <<>>)

IsBlankLine(l) == \A i \in 1..Len(l) : l[i] = SP

\* C10 as written: after the normalisation no two consecutive lines are
\* blank (empty or white space only), nothing else changed, and the empty
\* text stays empty.
C10_NoRunOfBlankLines ==
    pc = "norm_done" =>
        /\ \A i \in 1..(Len(splitlines(norm)) - 1) :
              ~(IsBlankLine(splitlines(norm)[i]) /\ IsBlankLine(splitlines(norm)[i + 1]))
        /\ Segments(norm) = Segments(text)
        /\ (text = <<>> => norm = <<>>)

\* C10 as amended: after the normalisation no two newline characters are
\* adjacent (no line between two others is empty); the runs of other
\* characters are those of the input, in order; a leading or trailing
\* newline is kept as one newline; the empty text stays empty.  Lines of
\* white space only are not touched.
C10_NormalizerCollapsesNewlineRuns ==
    pc = "norm_done" =>
        /\ \A i \in 1..(Len(norm) - 1) : ~(norm[i] = NL /\ norm[i + 1] = NL)
        /\ Segments(norm) = Segments(text)
        /\ (text = <<>> <=> norm = <<>>)
        /\ (text # <<>> /\ norm # <<>> =>
              /\ (text[1] = NL <=> norm[1] = NL)
              /\ (Last(text) = NL <=> Last(norm) = NL))

\* A text with a run of three newlines between two words has been normalised.
C10_Witness ==
    /\ pc = "norm_done"
    /\ text = <<"a", NL, NL, NL, "a">>
    /\ norm = <<"a", NL, "a">>

----------------------------------------------------------------------------
(* parse_resume, lines 444-477, with extract_text, lines 15-99 *)

\* extract_text raising instead of returning a text.
Raised == <<"<raised>">>

\* What a call of parse_resume came to: an exception or the record returned.
Exception == [raised |-> TRUE]
Returned(out) == [raised |-> FALSE, out |-> out]

\* The units of a text with every run of four digits as four characters.
CharsOf(u) ==
    IF u \in FourDigits
    THEN Digits(<<YearVal(u) \div 1000, (YearVal(u) \div 100) % 10,
                  (YearVal(u) \div 10) % 10, YearVal(u) % 10>>)
    ELSE <<u>>

Chars(t) == Flatten([i \in 1..Len(t) |-> CharsOf(t[i])])

\* extract_text, lines 86-99.  pdfplumber.open raises on a file it cannot
\* read (lines 15-22 catch nothing); the .docx and plain-text readers give
\* "" (lines 24-34, 95-99); the .doc reader returns the text read as
\* latin-1 when oletools is installed (line 44, outside what its except
\* catches) and otherwise falls back to "" for a text of at most 100
\* characters, which every text here is (lines 68-84).
extract_text(f, c) ==
    CASE f.suffix = ".pdf" -> IF f.readable THEN c ELSE Raised
      [] f.suffix = ".docx" -> IF f.readable THEN c ELSE <<>>
      [] f.suffix = ".doc" ->
            IF f.oletools THEN (IF f.readable THEN c ELSE Raised) ELSE <<>>
      [] OTHER -> IF f.readable THEN c ELSE <<>>

\* extract_email, lines 106-108
extract_email(t) ==
    IF \E i \in 1..Len(t) : t[i] \in Emails
    THEN <<t[CHOOSE i \in 1..Len(t) :
                /\ t[i] \in Emails
                /\ \A j \in 1..(i - 1) : t[j] \notin Emails]>>
    ELSE None

\* URL_RE, line 152: from "http(s)://" or "www." to the next white space
RECURSIVE NonSpaceEnd(_, _)
NonSpaceEnd(t, p) ==
    IF p < Len(t) /\ ~IsSpace(t[p + 1]) THEN NonSpaceEnd(t, p + 1) ELSE p

RECURSIVE UrlMatches(_, _)
UrlMatches(t, p) ==
    IF p > Len(t) THEN <<>>
    ELSE IF t[p] \in Urls
         THEN <<SubSeq(t, p, NonSpaceEnd(t, p))>> \o UrlMatches(t, NonSpaceEnd(t, p) + 1)
         ELSE UrlMatches(t, p + 1)

\* str.rstrip('.,;')
RECURSIVE RStripPunct(_)
RStripPunct(u) ==
    IF u # <<>> /\ Last(u) \in {".", ",", ";"} THEN RStripPunct(Front(u)) ELSE u

\* The set urls of line 156
UrlSet(t) == {RStripPunct(UrlMatches(t, 1)[i]) : i \in 1..Len(UrlMatches(t, 1))}

Holds(u, S) == \E i \in 1..Len(u) : u[i] \in S

\* lines 159-167: one URL of the loop
Classify(prof, u) ==
    IF Holds(u, LinkedinUrls) THEN [prof EXCEPT !.linkedin = u]
    ELSE IF Holds(u, GithubUrls) THEN [prof EXCEPT !.github = u]
    ELSE IF Holds(u, PortfolioUrls)
    THEN [prof EXCEPT !.portfolio = IF Truthy(@) THEN @ ELSE u]
    ELSE [prof EXCEPT !.other = Append(@, u)]

RECURSIVE ClassifyAll(_, _)
ClassifyAll(prof, us) ==
    IF us = <<>> THEN prof ELSE ClassifyAll(Classify(prof, Head(us)), Tail(us))

\* extract_urls, lines 155-168, when the loop of line 158 goes through
\* the set in the given order
extract_urls(order) ==
    ClassifyAll([linkedin |-> None, github |-> None, portfolio |-> None,
                 other |-> <<>>], order)

\* line 357: the lower-case units that hold "bachelor", "master", "phd",
\* "mba", "bs" or "ms" as a substring
DegreeUnits == {"bs", "ms", "mba", "phd", "bachelor", "master", "systems"}

\* line 357: "b\.tech", "m\.tech", "b\.e" and "m\.e" are plain strings
\* that hold a backslash; `k in low' finds them where a unit ending in b
\* or m, a backslash, a dot and a unit beginning with tech or e follow
\* one another
EscapedKeywordAt(low, i) ==
    /\ i + 3 <= Len(low)
    /\ low[i] \in {"b", "m"}
    /\ low[i + 1] = "\\"
    /\ low[i + 2] = "."
    /\ low[i + 3] \in {"tech", "e", "engineering"}

\* line 360
IsEducationLine(line) ==
    \/ \E i \in 1..Len(line) :
          LowerUnit(line[i]) \in DegreeUnits \/ EscapedKeywordAt(lower(line), i)
    \/ \E i \in 1..Len(line) : line[i] \in FourDigits

\* parse_education, lines 354-362
parse_education(t) ==
    [i \in 1..Len(SelectSeq(splitlines(t), IsEducationLine)) |->
        strip(SelectSeq(splitlines(t), IsEducationLine)[i])]

\* The result of a function the model does not look into, a function of
\* its argument: extract_name (lines 343-351), extract_skills (426-441),
\* extract_summary (171-187), extract_certifications (193-211),
\* extract_projects (214-233), extract_locations (236-253) and
\* extract_role_titles (261-291).
Opaque(fn, arg) == <<fn, arg>>

ExperienceKey == <<"experience">>
WorkExperienceKey == <<"work", SP, "experience">>
EducationKey == <<"education">>

\* lines 447-476: the record out
Record(t, secs, ph, urls, now) ==
    [name |-> Opaque("extract_name", t),
     email |-> extract_email(t),
     phones |-> ph,
     skills |-> Opaque("extract_skills", t),
     education |-> parse_education(DictGet(secs, EducationKey, <<>>)),
     experience |->
        parse_experience(DictGet(secs, ExperienceKey,
                                 DictGet(secs, WorkExperienceKey, <<>>))),
     linkedin |-> urls.linkedin,
     github |-> urls.github,
     portfolio |-> urls.portfolio,
     certifications |-> Opaque("extract_certifications", t),
     projects |-> Opaque("extract_projects", secs),
     summary |-> Opaque("extract_summary", t),
     locations |-> Opaque("extract_locations", t),
     role_titles |-> Opaque("extract_role_titles", DictGet(secs, ExperienceKey, <<>>)),
     years_experience |->
        estimate_years_experience(DictGet(secs, ExperienceKey, <<>>), now)]

PhoneLine ==
    Ln(<<Digits(<<9, 8, 7, 6, 5, 4, 3, 2, 1, 0>>), Digits(<<1, 2, 3, 4, 5, 6, 7>>)>>)

ResumeLines ==
    { Ln(<< <<"John">>, <<"Doe">> >>),
      Ln(<< <<"Experience">> >>),
      Ln(<< <<"Work">>, <<"Experience">> >>),
      Ln(<< <<"Experience", ":">>, <<"Acme">> >>),
      Ln(<< <<"Jan">>, <<"2018">>, <<Hyphen>>, <<"present">> >>),
      Ln(<< <<"Education">> >>),
      Ln(<< <<"BS">>, <<"2015">> >>),
      PhoneLine,
      Ln(<< <<"https://linkedin.com/in/a">>, <<"https://linkedin.com/in/b">> >>),
      Ln(<< <<"john@acme.com", ",">>, <<"https://github.com/a", ".">> >>),
      <<>> }

\* The suffixes with a text-extraction strategy (lines 88-93 and plain
\* text), and one without.
SupportedSuffixes == {".pdf", ".docx", ".doc", ".txt"}
UnsupportedSuffix == ".png"

Files ==
    [suffix : {".pdf", ".docx", ".txt", UnsupportedSuffix}, readable : BOOLEAN,
     oletools : {FALSE}]
      \cup [suffix : {".doc"}, readable : BOOLEAN, oletools : BOOLEAN]

ResumeInit ==
    /\ pc = "resume_start"
    /\ file \in Files
    /\ content \in {Join(ls, <<NL>>) : ls \in SeqsUpTo(ResumeLines, MaxResumeLines)}
    /\ ~file.readable => content = <<>>
    /\ now_year \in NowYears
    /\ runs = <<>>
    /\ profile = <<>>
    /\ degrees = <<>>
    /\ text = <<>>
    /\ norm = <<>>
    /\ sections = <<>>
    /\ phones = <<>>
    /\ years_exp = 0
    /\ ExpIdle

\* line 445: the text of the file
ExtractText ==
    /\ pc = "resume_start" /\ Len(runs) < MaxRuns
    /\ extract_text(file, content) # Raised
    /\ text' = extract_text(file, content)
    /\ pc' = "resume_text"
    /\ UNCHANGED <<norm, expVars, now_year, years_exp, phones, sections, fileVars>>

\* line 445: extract_text raises and nothing of parse_resume catches it
ExtractTextRaises ==
    /\ pc = "resume_start" /\ Len(runs) < MaxRuns
    /\ extract_text(file, content) = Raised
    /\ runs' = Append(runs, Exception)
    /\ UNCHANGED <<pc, text, norm, expVars, now_year, years_exp, phones, sections,
                   file, content, profile, degrees>>

\* line 446
NormalizeText ==
    /\ pc = "resume_text"
    /\ norm' = Normalize(text)
    /\ pc' = "resume_norm"
    /\ UNCHANGED <<text, expVars, now_year, years_exp, phones, sections, fileVars>>

\* lines 447-477: the extractors and the record; list(xs) of line 118 and
\* the loop of line 158 go through their sets in the order of the hash
\* table, which the hash seed of the process decides
Assemble ==
    /\ pc = "resume_norm"
    /\ LET secs == split_sections(norm)
           xs == PhoneSet(Chars(norm))
           urls == UrlSet(norm)
       IN  \E ph \in ListsOf(xs) : \E order \in ListsOf(urls) :
              /\ phones' = ph
              /\ sections' = secs
              /\ years_exp' = estimate_years_experience(
                                  DictGet(secs, ExperienceKey, <<>>), now_year)
              /\ profile' = extract_urls(order)
              /\ runs' = Append(runs, Returned(Record(norm, secs, ph,
                                                      extract_urls(order), now_year)))
    /\ pc' = "resume_start"
    /\ UNCHANGED <<text, norm, expVars, now_year, file, content, degrees>>

ResumeNext ==
    \/ ExtractText
    \/ ExtractTextRaises
    \/ NormalizeText
    \/ Assemble

SpecResume == ResumeInit /\ [][ResumeNext]_vars

\* C3: two calls of parse_resume on the same file come to the same record.
C3_RunsAgree ==
    \A i \in 1..Len(runs) : \A j \in 1..Len(runs) : runs[i] = runs[j]

\* C4: parse_resume never raises, whatever the file.
C4_NeverRaises == \A i \in 1..Len(runs) : ~runs[i].raised

\* C11: a call of parse_resume reports a failure instead of returning a
\* record when the suffix of the file has no text-extraction strategy, and
\* in no other case.
UnsupportedKindRaises ==
    \A i \in 1..Len(runs) : file.suffix \notin SupportedSuffixes => runs[i].raised

RaisesForUnsupportedKindOnly ==
    \A i \in 1..Len(runs) : runs[i].raised => file.suffix \notin SupportedSuffixes

C11_UnsupportedKindFails == UnsupportedKindRaises /\ RaisesForUnsupportedKindOnly

\* The fields of OutputRecord and those of them that hold a list.
OutputRecordFields ==
    {"name", "email", "phones", "skills", "education", "experience", "linkedin",
     "github", "portfolio", "other", "certifications", "projects", "summary",
     "locations", "role_titles", "years_experience"}

\* C5: every record returned has every field of OutputRecord, and with an
\* empty text the lists the extractors build are empty lists, not absent.
C5_FullyKeyed ==
    \A i \in 1..Len(runs) :
        ~runs[i].raised =>
            /\ OutputRecordFields \subseteq DOMAIN runs[i].out
            /\ norm = <<>> =>
                  /\ runs[i].out.phones = <<>>
                  /\ runs[i].out.education = <<>>
                  /\ runs[i].out.experience = <<>>

\* A span of the segmenter starts with the header "experience" or
\* "work experience".
HasExperienceSection(secs) ==
    \E i \in 1..Len(secs) :
        /\ secs[i][1] # RawKey
        /\ \/ secs[i][1][1] = "experience"
           \/ /\ Len(secs[i][1]) >= Len(WorkExperienceKey)
              /\ SubSeq(secs[i][1], 1, Len(WorkExperienceKey)) = WorkExperienceKey

\* C7: with no experience section among the sections, the years of
\* experience of the record are the estimate on the whole normalized text.
C7_YearsFromWholeText ==
    pc = "resume_start" /\ runs # <<>> /\ ~Last(runs).raised
      /\ ~HasExperienceSection(sections)
      => Last(runs).out.years_experience = estimate_years_experience(norm, now_year)

\* C18: when a span of the segmenter starts with the header word
\* "experience", whatever follows on its first line, the text of such a
\* span is what parse_experience, extract_role_titles and
\* estimate_years_experience were given.
C18_ExperienceByHeaderWord ==
    (pc = "resume_start" /\ runs # <<>> /\ ~Last(runs).raised
       /\ \E i \in 1..Len(sections) : sections[i][1][1] = "experience")
      => \E j \in 1..Len(sections) :
            /\ sections[j][1][1] = "experience"
            /\ Last(runs).out.experience = parse_experience(sections[j][2])
            /\ Last(runs).out.role_titles =
                  Opaque("extract_role_titles", sections[j][2])
            /\ Last(runs).out.years_experience =
                  estimate_years_experience(sections[j][2], now_year)

----------------------------------------------------------------------------
(* extract_urls on its own, lines 155-168 *)

UrlPieces ==
    { <<"https://linkedin.com/in/a">>, <<"https://linkedin.com/in/b", ",">>,
      <<"https://github.com/a", ".">>, <<"https://medium.com/a">>,
      <<"https://gitlab.com/a">>, <<"https://example.com">>, <<"see">> }

UrlsInit ==
    /\ pc = "urls_start"
    /\ text \in {Join(ps, <<SP>>) : ps \in SeqsUpTo(UrlPieces, MaxUrlPieces)}
    /\ norm = <<>>
    /\ ExpIdle
    /\ YearsIdle

\* The loop of line 158 goes through the set in the order of its hash table.
ExtractUrls ==
    /\ pc = "urls_start"
    /\ \E order \in ListsOf(UrlSet(text)) : profile' = extract_urls(order)
    /\ pc' = "urls_done"
    /\ UNCHANGED <<text, norm, expVars, now_year, years_exp, phones, sections,
                   file, content, runs, degrees>>

UrlsNext == ExtractUrls

SpecUrls == UrlsInit /\ [][UrlsNext]_vars

\* The URLs of the text in text order, and the first of them of a category.
UrlsInOrder(t) == [i \in 1..Len(UrlMatches(t, 1)) |-> RStripPunct(UrlMatches(t, 1)[i])]

FirstOfCategory(t, S) ==
    IF \E i \in 1..Len(UrlsInOrder(t)) : Holds(UrlsInOrder(t)[i], S)
    THEN UrlsInOrder(t)[CHOOSE i \in 1..Len(UrlsInOrder(t)) :
            /\ Holds(UrlsInOrder(t)[i], S)
            /\ \A j \in 1..(i - 1) : ~Holds(UrlsInOrder(t)[j], S)]
    ELSE None

\* C12: the URL reported for linkedin, github and portfolio is the first
\* match of the category in the text, and every URL of no category is in
\* the list "other".
C12_FirstMatchWins ==
    pc = "urls_done" =>
        /\ profile.linkedin = FirstOfCategory(text, LinkedinUrls)
        /\ profile.github = FirstOfCategory(text, GithubUrls)
        /\ profile.portfolio = FirstOfCategory(text, PortfolioUrls)
        /\ \A u \in UrlSet(text) :
              Holds(u, OtherUrls) => \E i \in 1..Len(profile.other) : profile.other[i] = u

----------------------------------------------------------------------------
(* parse_education on its own, lines 354-362 *)

\* Lines of an education section: with a degree word, with an abbreviated
\* engineering degree, with a year, with the letters "ms" inside a word,
\* with the backslash the keyword list holds, and with none of these.
EduLines ==
    { <<"B", ".", "Tech", SP, "in", SP, "Computer", SP, "Engineering">>,
      <<"M", ".", "E">>,
      <<"BS", SP, "2015">>,
      <<"Bachelor", SP, "of", SP, "Science">>,
      <<"2019">>,
      <<"Acme", SP, "Systems">>,
      <<"B", "\\", ".", "Tech">>,
      <<SP, "MBA">>,
      <<"Python">> }

EduInit ==
    /\ pc = "edu_start"
    /\ text \in {Join(ls, <<NL>>) : ls \in SeqsUpTo(EduLines, MaxEduLines)}
    /\ norm = <<>>
    /\ ExpIdle
    /\ YearsIdle

ParseEducation ==
    /\ pc = "edu_start"
    /\ degrees' = parse_education(text)
    /\ pc' = "edu_done"
    /\ UNCHANGED <<text, norm, expVars, now_year, years_exp, phones, sections,
                   file, content, runs, profile>>

EduNext == ParseEducation

SpecEdu == EduInit /\ [][EduNext]_vars

\* The lower-case line holds "b.tech", "m.tech", "b.e" or "m.e".
AbbreviatedDegree(low) ==
    \E i \in 1..Len(low) :
        /\ i + 2 <= Len(low)
        /\ low[i] \in {"b", "m"}
        /\ low[i + 1] = "."
        /\ low[i + 2] \in {"tech", "e", "engineering"}

DegreeStemOrYear(line) ==
    \/ \E i \in 1..Len(line) : LowerUnit(line[i]) \in DegreeUnits
    \/ AbbreviatedDegree(lower(line))
    \/ \E i \in 1..Len(line) : line[i] \in FourDigits

\* C17: the list returned holds, in input order and with duplicates, the
\* lines with a degree-keyword stem, an abbreviated engineering degree
\* (b.tech, m.tech, b.e, m.e) or a 4-digit year, and no other line.
C17_DegreeLinesKept ==
    pc = "edu_done" =>
        degrees = [i \in 1..Len(SelectSeq(splitlines(text), DegreeStemOrYear)) |->
                      strip(SelectSeq(splitlines(text), DegreeStemOrYear)[i])]

============================================================================
